---- MODULE Spec2Model ----
(***************************************************************************)
(* Model of the private-position entry/exit library:                       *)
(*   - the SDK modules shield.ts, unshield.ts and incognito.ts             *)
(*     (input validation, mock submission, balance reads, derivation),     *)
(*   - PrivateTradingService (privateTradingService.ts): the single-shot   *)
(*     operations, checkPrivateFundsStatus with its two sequential reads,   *)
(*     and the polling loop of waitForTransactionConfirmation.             *)
(*                                                                         *)
(* JavaScript strings that the code inspects character by character        *)
(* (addresses, amounts, balances, transaction hashes) are tuples of        *)
(* one-character strings; error messages, which the code only builds by    *)
(* concatenation, are TLA+ strings.                                        *)
(***************************************************************************)
EXTENDS Integers, Sequences, FiniteSets, TLC

VARIABLES
    chainId,      \* PrivateTradingService.chainId (set by the constructor)
    pc,           \* position of the caller: "idle", inside a call, or "done"
    call,         \* the call in progress or last finished: operation and arguments
    result,       \* its outcome: [kind |-> "none" | "return" | "throw", value |-> ...]
    ext,          \* provider (external) requests issued by the current call, in order
    locals,       \* local variables of the call in progress
    poolBal,      \* provider state: shielded-pool balance (decimal string)
    incogBal,     \* provider state: incognito-wallet balance (decimal string)
    hist,         \* history of the current checkPrivateFundsStatus call
    now,          \* Date.now(), in milliseconds
    wait,         \* state of the waitForTransactionConfirmation call
    session,      \* history of the caller's session (recorded when session.tracking)
    peer          \* the suspended session, when two sessions take turns

vars == <<chainId, pc, call, result, ext, locals, poolBal, incogBal, hist, now, wait,
          session, peer>>

-----------------------------------------------------------------------------
(* Strings *)

Rep(c, n) == [i \in 1..n |-> c]

Digits == {"0", "1", "2", "3", "4", "5", "6", "7", "8", "9"}

\* the character class [a-fA-F0-9]
HexChars == Digits \cup {"a", "b", "c", "d", "e", "f", "A", "B", "C", "D", "E", "F"}

\* StrWhiteSpaceChar, as far as the inputs use it
WhiteSpace == {" "}

Min(S) == CHOOSE x \in S : \A y \in S : x <= y

\* /^0x[a-fA-F0-9]{n}$/ : the shape test shared by every validation
MatchesHex(s, n) ==
    /\ Len(s) = n + 2
    /\ s[1] = "0"
    /\ s[2] = "x"
    /\ \A i \in 3..(n + 2) : s[i] \in HexChars

\* JavaScript truthiness of a string: the empty string is falsy
Truthy(s) == Len(s) > 0

\* the guard `!a || !a.match(/^0x[a-fA-F0-9]{40}$/)`
BadAddress_NoShape(a) == ~Truthy(a)

BadAddress(a) == ~Truthy(a) \/ ~MatchesHex(a, 40)

\* the guard `!txHash || !txHash.match(/^0x[a-fA-F0-9]{64}$/)`
BadTxHash(h) == ~Truthy(h) \/ ~MatchesHex(h, 64)

-----------------------------------------------------------------------------
(* parseFloat, up to the sign of its value: the code only compares the     *)
(* result with 0.  The result is NaN when no prefix of the trimmed input   *)
(* is a decimal literal; every comparison with NaN is false.               *)

\* first index >= i of s holding a character outside S (Len(s)+1 if none)
RunEnd(s, i, S) ==
    IF \E j \in i..Len(s) : s[j] \notin S
    THEN Min({j \in i..Len(s) : s[j] \notin S})
    ELSE Len(s) + 1

HasNonZero(s, from, to) == \E j \in from..(to - 1) : s[j] # "0"

IsInfinityAt(s, i) ==
    /\ Len(s) >= i + 7
    /\ SubSeq(s, i, i + 7) = <<"I", "n", "f", "i", "n", "i", "t", "y">>

ParseFloat(s) ==
    LET t    == RunEnd(s, 1, WhiteSpace)              \* skip leading white space
        neg  == t <= Len(s) /\ s[t] = "-"
        b    == IF t <= Len(s) /\ s[t] \in {"+", "-"} THEN t + 1 ELSE t
        ie   == RunEnd(s, b, Digits)                  \* integer digits b..ie-1
        dot  == ie <= Len(s) /\ s[ie] = "."
        fb   == IF dot THEN ie + 1 ELSE ie
        fe   == IF dot THEN RunEnd(s, fb, Digits) ELSE ie  \* fraction digits
        some == (ie > b) \/ (fe > fb)
        pos  == HasNonZero(s, b, ie) \/ HasNonZero(s, fb, fe)
    IN  IF IsInfinityAt(s, b)
        THEN [nan |-> FALSE, sgn |-> IF neg THEN -1 ELSE 1]
        ELSE IF ~some
        THEN [nan |-> TRUE, sgn |-> 0]
        ELSE [nan |-> FALSE, sgn |-> IF ~pos THEN 0 ELSE IF neg THEN -1 ELSE 1]

\* x <= 0 and x > 0 on a parseFloat result
LeZero(x) == ~x.nan /\ x.sgn <= 0
GtZero(x) == ~x.nan /\ x.sgn > 0

\* the guard `!amount || parseFloat(amount) <= 0`
BadAmount(amount) == ~Truthy(amount) \/ LeZero(ParseFloat(amount))

-----------------------------------------------------------------------------
(* Results of the asynchronous functions: a resolved or a rejected promise *)

Return(v) == [kind |-> "return", value |-> v]
Throw(m)  == [kind |-> "throw", message |-> m]
NoResult  == [kind |-> "none"]

Returned(r) == r.kind = "return"
Threw(r)    == r.kind = "throw"

\* TransactionState and PrivacyPoolStatus (types/private-trading.ts)
TransactionState == {"idle", "pending", "confirming", "indexing", "completed", "failed"}
PrivacyPoolStatus == {"not_initialized", "ready", "shielding", "unshielding", "error"}

-----------------------------------------------------------------------------
(* String conversions used by the SDK modules *)

DigitSeq == <<"0", "1", "2", "3", "4", "5", "6", "7", "8", "9">>
HexSeq   == DigitSeq \o <<"a", "b", "c", "d", "e", "f">>
UpperSeq == <<"A", "B", "C", "D", "E", "F">>

IndexOf(seq, c) == CHOOSE i \in 1..Len(seq) : seq[i] = c

\* String.prototype.charCodeAt for the characters of addresses and numbers
CharCode(c) ==
    IF c \in Digits THEN 47 + IndexOf(DigitSeq, c)
    ELSE IF c \in {"a", "b", "c", "d", "e", "f"} THEN 86 + IndexOf(HexSeq, c)
    ELSE IF c \in {"A", "B", "C", "D", "E", "F"} THEN 64 + IndexOf(UpperSeq, c)
    ELSE IF c = "x" THEN 120
    ELSE IF c = "." THEN 46
    ELSE 45

\* Number.prototype.toString(radix) of a non-negative integer
RECURSIVE ToRadix(_, _)
ToRadix(n, radix) ==
    IF n < radix THEN <<HexSeq[n + 1]>>
    ELSE ToRadix(n \div radix, radix) \o <<HexSeq[(n % radix) + 1]>>

\* String.prototype.padStart / padEnd / slice(from) / slice(0, to)
PadStart(s, n, c) == IF Len(s) >= n THEN s ELSE Rep(c, n - Len(s)) \o s
PadEnd(s, n, c)   == IF Len(s) >= n THEN s ELSE s \o Rep(c, n - Len(s))
SliceFrom(s, from) == IF from >= Len(s) THEN <<>> ELSE SubSeq(s, from + 1, Len(s))
SliceTo(s, to)     == IF to >= Len(s) THEN s ELSE SubSeq(s, 1, to)

-----------------------------------------------------------------------------
(* simpleHash (incognito.ts).  A 32-bit integer is kept as two 16-bit      *)
(* limbs <<hi, lo>> of its two's-complement pattern, so that no            *)
(* intermediate value leaves the checker's integer range.                  *)

Limb == 2 ^ 16

\* hash << 5
Shl5(h) ==
    LET lo == h[2] * 32
    IN  <<(h[1] * 32 + (lo \div Limb)) % Limb, lo % Limb>>

\* ToInt32(a - b)
Sub32(a, b) ==
    LET lo     == a[2] - b[2]
        borrow == IF lo < 0 THEN 1 ELSE 0
    IN  <<(a[1] - b[1] - borrow + 2 * Limb) % Limb, (lo + Limb) % Limb>>

\* ToInt32(a + char)
Add32(a, c) ==
    LET lo == a[2] + c
    IN  <<(a[1] + (lo \div Limb)) % Limb, lo % Limb>>

IsNegative32(h) == h[1] >= Limb \div 2

\* Math.abs of a 32-bit integer, as an unsigned 32-bit magnitude
Abs32(h) == IF IsNegative32(h) THEN Sub32(<<0, 0>>, h) ELSE h

\* (magnitude).toString(16)
ToHex32(h) ==
    IF h[1] = 0 THEN ToRadix(h[2], 16)
    ELSE ToRadix(h[1], 16) \o PadStart(ToRadix(h[2], 16), 4, "0")

\* a 32-bit integer: both limbs in range
IsInt32(h) == h[1] \in 0..(Limb - 1) /\ h[2] \in 0..(Limb - 1)

\* the loop: hash = (hash << 5) - hash + char; hash = hash & hash.
\* (`hash & hash` keeps the value a 32-bit integer on every iteration.)
RECURSIVE HashLoop(_, _, _)
HashLoop(input, i, hash) ==
    IF i > Len(input) \/ ~IsInt32(hash) THEN hash
    ELSE HashLoop(input, i + 1, Add32(Sub32(Shl5(hash), hash), CharCode(input[i])))

simpleHash_Unpadded(input) ==
    LET hash    == HashLoop(input, 1, <<0, 0>>)
        hexHash == ToHex32(Abs32(hash))
    IN  SliceTo(hexHash \o hexHash \o hexHash \o hexHash \o hexHash, 40)

simpleHash(input) ==
    LET hash    == HashLoop(input, 1, <<0, 0>>)
        hexHash == PadStart(ToHex32(Abs32(hash)), 8, "0")
    IN  SliceTo(hexHash \o hexHash \o hexHash \o hexHash \o hexHash, 40)

-----------------------------------------------------------------------------
(* SDK modules.  Each function is its validation followed by the request   *)
(* to the provider.  In the source the part after the validation is a      *)
(* placeholder ("In a real implementation, this would ...") returning one  *)
(* fixed value; here it is the provider's answer `prov`, which ranges over *)
(* the placeholder's own value ('0', COMPLETED, a pending mock hash) and   *)
(* the answers the service's tests inject in its place (other balances and *)
(* states, rejections).  A function yields its outcome and the provider    *)
(* requests it issued.                                                     *)

NoReq == <<>>

deriveIncognitoAddress_Timestamped(mainWalletAddress, cid) ==
    IF BadAddress(mainWalletAddress)
    THEN [out |-> Throw("Invalid main wallet address"), req |-> NoReq]
    ELSE LET hash == simpleHash(mainWalletAddress \o ToRadix(cid, 10) \o ToRadix(now, 10))
         IN  [out |-> Return(<<"0", "x">> \o SliceTo(hash, 40)), req |-> NoReq]

\* incognito.ts: deriveIncognitoAddress
deriveIncognitoAddress(mainWalletAddress, cid) ==
    IF BadAddress(mainWalletAddress)
    THEN [out |-> Throw("Invalid main wallet address"), req |-> NoReq]
    ELSE LET hash == simpleHash(mainWalletAddress \o ToRadix(cid, 10))
         IN  [out |-> Return(<<"0", "x">> \o SliceTo(hash, 40)), req |-> NoReq]

MockTxHash_Unpadded(rnd) == <<"0", "x">> \o SliceFrom(<<"0", ".">> \o rnd, 2)

\* the mock transaction hash: `0x${Math.random().toString(16).slice(2).padEnd(64, '0')}`
MockTxHash(rnd) == <<"0", "x">> \o PadEnd(SliceFrom(<<"0", ".">> \o rnd, 2), 64, "0")

SubmitOutcome(prov) ==
    IF prov.fail THEN Throw(prov.message)
    ELSE Return([txHash |-> MockTxHash(prov.rnd), state |-> "pending"])

\* shield.ts: shieldTokens
shieldTokens(walletAddress, token, amount, cid, prov) ==
    IF BadAddress(walletAddress)
    THEN [out |-> Throw("Invalid wallet address"), req |-> NoReq]
    ELSE IF BadAmount(amount)
    THEN [out |-> Throw("Invalid amount"), req |-> NoReq]
    ELSE [out |-> SubmitOutcome(prov),
          req |-> <<[fn |-> "submit-shield", address |-> walletAddress,
                     token |-> token, amount |-> amount, chainId |-> cid]>>]

\* unshield.ts: unshieldTokens
unshieldTokens(destinationAddress, token, amount, cid, prov) ==
    IF BadAddress(destinationAddress)
    THEN [out |-> Throw("Invalid destination address"), req |-> NoReq]
    ELSE IF BadAmount(amount)
    THEN [out |-> Throw("Invalid amount"), req |-> NoReq]
    ELSE [out |-> SubmitOutcome(prov),
          req |-> <<[fn |-> "submit-unshield", address |-> destinationAddress,
                     token |-> token, amount |-> amount, chainId |-> cid]>>]

ReadOutcome(prov) == IF prov.fail THEN Throw(prov.message) ELSE Return(prov.balance)

getShieldedBalance_FailureAsZero(walletAddress, token, cid, prov) ==
    IF BadAddress(walletAddress)
    THEN [out |-> Throw("Invalid wallet address"), req |-> NoReq]
    ELSE [out |-> IF prov.fail THEN Return(<<"0">>) ELSE ReadOutcome(prov),
          req |-> <<[fn |-> "read-shielded-balance", address |-> walletAddress,
                     token |-> token, amount |-> <<>>, chainId |-> cid]>>]

\* shield.ts: getShieldedBalance
getShieldedBalance(walletAddress, token, cid, prov) ==
    IF BadAddress(walletAddress)
    THEN [out |-> Throw("Invalid wallet address"), req |-> NoReq]
    ELSE [out |-> ReadOutcome(prov),
          req |-> <<[fn |-> "read-shielded-balance", address |-> walletAddress,
                     token |-> token, amount |-> <<>>, chainId |-> cid]>>]

\* incognito.ts: getIncognitoBalance
getIncognitoBalance(incognitoAddress, token, cid, prov) ==
    IF BadAddress(incognitoAddress)
    THEN [out |-> Throw("Invalid incognito address"), req |-> NoReq]
    ELSE [out |-> ReadOutcome(prov),
          req |-> <<[fn |-> "read-incognito-balance", address |-> incognitoAddress,
                     token |-> token, amount |-> <<>>, chainId |-> cid]>>]

\* shield.ts: getTransactionStatus
getTransactionStatus(txHash, prov) ==
    IF BadTxHash(txHash)
    THEN [out |-> Throw("Invalid transaction hash"), req |-> NoReq]
    ELSE [out |-> IF prov.fail THEN Throw(prov.message) ELSE Return(prov.state),
          req |-> <<[fn |-> "poll-operation-state", txHash |-> txHash]>>]

-----------------------------------------------------------------------------
(* PrivateTradingService: the single-shot operations.  `t` is Date.now().  *)

Rethrow_DropsCause(prefix, err) == Throw(prefix \o "Unknown error")

\* `error instanceof Error ? error.message : String(error)` behind a phase prefix
Rethrow(prefix, err) == Throw(prefix \o err.message)

preparePrivateFunds_Retries(mainWalletAddress, config, cid, t, prov) ==
    LET r == shieldTokens(mainWalletAddress, config.token, config.amount, cid, prov)
    IN  [out |-> IF Threw(r.out)
                 THEN Rethrow("Failed to prepare private funds: ", r.out)
                 ELSE Return([txHash |-> r.out.value.txHash, token |-> config.token,
                              amount |-> config.amount, state |-> r.out.value.state,
                              startedAt |-> t]),
         req |-> IF Threw(r.out) THEN r.req \o r.req ELSE r.req]

\* preparePrivateFunds
preparePrivateFunds(mainWalletAddress, config, cid, t, prov) ==
    LET r == shieldTokens(mainWalletAddress, config.token, config.amount, cid, prov)
    IN  [out |-> IF Threw(r.out)
                 THEN Rethrow("Failed to prepare private funds: ", r.out)
                 ELSE Return([txHash |-> r.out.value.txHash, token |-> config.token,
                              amount |-> config.amount, state |-> r.out.value.state,
                              startedAt |-> t]),
         req |-> r.req]

unshieldForTrading_DeactivatesWallet(incognitoWallet, config, cid, t, prov) ==
    LET r == unshieldTokens(incognitoWallet.address, config.token, config.amount, cid, prov)
    IN  [out |-> IF Threw(r.out)
                 THEN Rethrow("Failed to unshield for trading: ", r.out)
                 ELSE Return([txHash |-> r.out.value.txHash, token |-> config.token,
                              amount |-> config.amount,
                              destinationAddress |-> incognitoWallet.address,
                              state |-> r.out.value.state, startedAt |-> t]),
         req |-> r.req, incognitoWallet |-> [incognitoWallet EXCEPT !.isActive = FALSE],
         config |-> config]

\* unshieldForTrading; the wallet and the configuration are only read, and
\* are returned as they are after the call
unshieldForTrading(incognitoWallet, config, cid, t, prov) ==
    LET r == unshieldTokens(incognitoWallet.address, config.token, config.amount, cid, prov)
    IN  [out |-> IF Threw(r.out)
                 THEN Rethrow("Failed to unshield for trading: ", r.out)
                 ELSE Return([txHash |-> r.out.value.txHash, token |-> config.token,
                              amount |-> config.amount,
                              destinationAddress |-> incognitoWallet.address,
                              state |-> r.out.value.state, startedAt |-> t]),
         req |-> r.req, incognitoWallet |-> incognitoWallet, config |-> config]

exitPrivatePosition_FromMain(incognitoWallet, config, cid, t, prov) ==
    LET r == shieldTokens(incognitoWallet.mainWalletAddress, config.token, config.amount,
                          cid, prov)
    IN  [out |-> IF Threw(r.out)
                 THEN Rethrow("Failed to exit private position: ", r.out)
                 ELSE Return([txHash |-> r.out.value.txHash, token |-> config.token,
                              amount |-> config.amount, state |-> r.out.value.state,
                              startedAt |-> t]),
         req |-> r.req, incognitoWallet |-> incognitoWallet, config |-> config]

exitPrivatePosition_PreparePrefix(incognitoWallet, config, cid, t, prov) ==
    LET r == shieldTokens(incognitoWallet.address, config.token, config.amount, cid, prov)
    IN  [out |-> IF Threw(r.out)
                 THEN Rethrow("Failed to prepare private funds: ", r.out)
                 ELSE Return([txHash |-> r.out.value.txHash, token |-> config.token,
                              amount |-> config.amount, state |-> r.out.value.state,
                              startedAt |-> t]),
         req |-> r.req, incognitoWallet |-> incognitoWallet, config |-> config]

\* exitPrivatePosition; the wallet and the configuration are only read, and
\* are returned as they are after the call
exitPrivatePosition(incognitoWallet, config, cid, t, prov) ==
    LET r == shieldTokens(incognitoWallet.address, config.token, config.amount, cid, prov)
    IN  [out |-> IF Threw(r.out)
                 THEN Rethrow("Failed to exit private position: ", r.out)
                 ELSE Return([txHash |-> r.out.value.txHash, token |-> config.token,
                              amount |-> config.amount, state |-> r.out.value.state,
                              startedAt |-> t]),
         req |-> r.req, incognitoWallet |-> incognitoWallet, config |-> config]

\* an omitted optional argument
Undefined == "undefined"

WalletOf_LabelAlways(address, mainWalletAddress, cid, t, label) ==
    [address |-> address, mainWalletAddress |-> mainWalletAddress,
     chainId |-> cid, isActive |-> TRUE, createdAt |-> t, label |-> label]

\* the wallet literal of deriveIncognitoWallet; `...(label && { label })`
WalletOf(address, mainWalletAddress, cid, t, label) ==
    IF label # Undefined /\ Len(label) > 0
    THEN [address |-> address, mainWalletAddress |-> mainWalletAddress,
          chainId |-> cid, isActive |-> TRUE, createdAt |-> t, label |-> label]
    ELSE [address |-> address, mainWalletAddress |-> mainWalletAddress,
          chainId |-> cid, isActive |-> TRUE, createdAt |-> t]

\* the chain id of the service constructed last
deriveIncognitoWallet_SharedChain(mainWalletAddress, label, cid, t) ==
    LET last == IF peer.id = 0 THEN cid ELSE peer.ctor[2]
        r    == deriveIncognitoAddress(mainWalletAddress, last)
    IN  [out |-> IF Threw(r.out)
                 THEN Rethrow("Failed to derive incognito wallet: ", r.out)
                 ELSE Return(WalletOf(r.out.value, mainWalletAddress, last, t, label)),
         req |-> r.req]

deriveIncognitoWallet_LabelSalted(mainWalletAddress, label, cid, t) ==
    LET r      == deriveIncognitoAddress(mainWalletAddress, cid)
        salted == IF Threw(r.out) \/ label = Undefined \/ Len(label) = 0
                  THEN r
                  ELSE deriveIncognitoAddress(r.out.value, cid)
    IN  [out |-> IF Threw(salted.out)
                 THEN Rethrow("Failed to derive incognito wallet: ", salted.out)
                 ELSE Return(WalletOf(salted.out.value, mainWalletAddress, cid, t, label)),
         req |-> r.req]

\* deriveIncognitoWallet
deriveIncognitoWallet(mainWalletAddress, label, cid, t) ==
    LET r == deriveIncognitoAddress(mainWalletAddress, cid)
    IN  [out |-> IF Threw(r.out)
                 THEN Rethrow("Failed to derive incognito wallet: ", r.out)
                 ELSE Return(WalletOf(r.out.value, mainWalletAddress, cid, t, label)),
         req |-> r.req]

-----------------------------------------------------------------------------
(* PrivateTradingService.checkPrivateFundsStatus *)

BuildStatus_BothFunded(shieldedBalance, incognitoBalance, t) ==
    LET isReady == GtZero(ParseFloat(shieldedBalance)) /\ GtZero(ParseFloat(incognitoBalance))
    IN  [shieldedBalance |-> shieldedBalance,
         incognitoBalance |-> incognitoBalance,
         mainWalletBalance |-> <<"0">>,
         privacyPoolStatus |-> IF isReady THEN "ready" ELSE "not_initialized",
         isReady |-> isReady,
         transactionState |-> "idle",
         lastUpdated |-> t]

BuildStatus_Swapped(shieldedBalance, incognitoBalance, t) ==
    LET isReady == GtZero(ParseFloat(shieldedBalance)) \/ GtZero(ParseFloat(incognitoBalance))
    IN  [shieldedBalance |-> incognitoBalance,
         incognitoBalance |-> shieldedBalance,
         mainWalletBalance |-> <<"0">>,
         privacyPoolStatus |-> IF isReady THEN "ready" ELSE "not_initialized",
         isReady |-> isReady,
         transactionState |-> "idle",
         lastUpdated |-> t]

BuildStatus_PlaceholderIncognito(shieldedBalance, incognitoBalance, t) ==
    LET isReady == GtZero(ParseFloat(shieldedBalance))
    IN  [shieldedBalance |-> shieldedBalance,
         incognitoBalance |-> <<"0">>,
         mainWalletBalance |-> <<"0">>,
         privacyPoolStatus |-> IF isReady THEN "ready" ELSE "not_initialized",
         isReady |-> isReady,
         transactionState |-> "idle",
         lastUpdated |-> t]

\* lines 160-177: the snapshot built from the two balances read
BuildStatus(shieldedBalance, incognitoBalance, t) ==
    LET hasShieldedFunds  == GtZero(ParseFloat(shieldedBalance))
        hasIncognitoFunds == GtZero(ParseFloat(incognitoBalance))
        isReady           == hasShieldedFunds \/ hasIncognitoFunds
    IN  [shieldedBalance |-> shieldedBalance,
         incognitoBalance |-> incognitoBalance,
         mainWalletBalance |-> <<"0">>,
         privacyPoolStatus |-> IF isReady THEN "ready" ELSE "not_initialized",
         isReady |-> isReady,
         transactionState |-> "idle",
         lastUpdated |-> t]

StatusCatch_Rethrow(err, t) == Throw("Failed to check private funds status: " \o err.message)

StatusCatch_KeepsIdle(err, t) ==
    Return([shieldedBalance |-> <<"0">>,
            incognitoBalance |-> <<"0">>,
            mainWalletBalance |-> <<"0">>,
            privacyPoolStatus |-> "error",
            isReady |-> FALSE,
            transactionState |-> "idle",
            error |-> err.message,
            lastUpdated |-> t])

StatusCatch_KeepsShielded(err, t) ==
    Return([shieldedBalance |-> IF locals.shieldedBalance = Undefined THEN <<"0">>
                                ELSE locals.shieldedBalance,
            incognitoBalance |-> <<"0">>,
            mainWalletBalance |-> <<"0">>,
            privacyPoolStatus |-> "error",
            isReady |-> FALSE,
            transactionState |-> "failed",
            error |-> err.message,
            lastUpdated |-> t])

\* lines 180-192: the catch block, which returns the error snapshot
StatusCatch(err, t) ==
    Return([shieldedBalance |-> <<"0">>,
            incognitoBalance |-> <<"0">>,
            mainWalletBalance |-> <<"0">>,
            privacyPoolStatus |-> "error",
            isReady |-> FALSE,
            transactionState |-> "failed",
            error |-> err.message,
            lastUpdated |-> t])

-----------------------------------------------------------------------------
(* Inputs *)

MainWallet == <<"0", "x">> \o Rep("1", 40)
MixedCase  == <<"0", "x">> \o [i \in 1..40 |-> IF i % 2 = 1 THEN "a" ELSE "B"]
EmptyStr   == <<>>
NotHex     == <<"i", "n", "v", "a", "l", "i", "d">>
TooShort   == <<"0", "x", "1", "2", "3">>
NoPrefix   == Rep("1", 40)
TooLong    == <<"0", "x">> \o Rep("1", 41)
BadChar    == <<"0", "x">> \o Rep("1", 39) \o <<"g">>

\* addresses chosen for what simpleHash makes of them on chain 1:
\* OwnImage is derived to itself; SameImageA and SameImageB are derived to
\* the same address; the hash of ZeroHash is 0, that of MinHash is -2^31
Hex8(h) == h \o h \o h \o h \o h
OwnImage   == <<"0", "x">> \o Hex8(<<"4", "0", "7", "8", "6", "6", "3", "d">>)
SameImageA == <<"0", "x">> \o Rep("1", 38) \o <<"1", "B">>
SameImageB == <<"0", "x">> \o Rep("1", 38) \o <<"0", "a">>
ZeroHash   == <<"0", "x">> \o Rep("2", 32) \o <<"8", "5", "6", "a", "5", "e", "3", "d">>
MinHash    == <<"0", "x">> \o Rep("1", 32) \o <<"0", "e", "b", "a", "5", "5", "c", "8">>

Addresses == {MainWallet, MixedCase, EmptyStr, NotHex, TooShort, NoPrefix, TooLong, BadChar,
              OwnImage, SameImageA, SameImageB, ZeroHash, MinHash}

\* the addresses tried on checkPrivateFundsStatus
StatusAddresses == {MainWallet, MixedCase, EmptyStr, BadChar}

Amounts == {<<>>, <<"0">>, <<"0", ".", "0">>, <<"-", "1", "0", "0">>, <<"a", "b", "c">>,
            <<"1", "0", "0", "0">>, <<"0", ".", "5">>}

\* balances a provider reports: decimal strings
Balances == {<<"0">>, <<"0", ".", "0">>, <<"0", ".", "5">>, <<"1", "0", "0", "0">>}

Tokens == {"USDC"}
ChainIds == {1, 137}
Labels == {Undefined, "", "Trading 1"}

\* Math.random().toString(16) after "0."
RandomHex == {<<>>, <<"8", "f", "3", "a">>}

\* `autoUnshield?: boolean` of PrivateTradeConfig
AutoUnshield == {Undefined, "true", "false"}

ConfigOf(token, amount, autoUnshield) ==
    [tradeType |-> "entry", token |-> token, amount |-> amount, slippageTolerance |-> 0,
     autoUnshield |-> autoUnshield]

\* `maxIndexingTime?: number` of PrivateTradeConfig, in seconds: <<>> when
\* absent, <<n>> when set
MaxIndexingTimes == {<<>>, <<90>>}

\* a configuration with the maximum-indexing-wait override
ConfigWith(token, amount, autoUnshield, maxIndexingTime) ==
    [tradeType |-> "entry", token |-> token, amount |-> amount, slippageTolerance |-> 0,
     autoUnshield |-> autoUnshield, maxIndexingTime |-> maxIndexingTime]

\* a caller-built IncognitoWallet for address a
CallerWallet(a, cid) == WalletOf(a, MainWallet, cid, 0, Undefined)

\* the provider's answers
SubmitAnswers == {[fail |-> TRUE, message |-> "Insufficient balance"]}
                     \cup {[fail |-> FALSE, rnd |-> r] : r \in RandomHex}
ReadAnswers(bal) == {[fail |-> TRUE, message |-> "Network error"],
                     [fail |-> FALSE, balance |-> bal]}

-----------------------------------------------------------------------------
(* The caller: one call at a time.  A single-shot operation is one step,   *)
(* from "idle" to "done"; the caller then takes the outcome (Resume).      *)

Idle == pc = "idle"

\* The session history: the operation references the session's shield and
\* unshield calls returned, the last reference preparePrivateFunds returned,
\* the references a wait has seen in a terminal state, the last finished
\* deriveIncognitoAddress call, the handles (reference and state) the caller
\* holds, the references a wait returned `completed` for, and the references
\* a wait ended on with the timeout or the operation-failed error, and the
\* references of the operations whose configuration set maxIndexingTime
\* (with its value).
NoDerived == [address |-> <<>>, chainId |-> 0, out |-> <<>>]
NoSession == [tracking |-> FALSE, refs |-> {}, lastShield |-> <<>>, terminal |-> {},
              derived |-> NoDerived, handles |-> {}, completed |-> {}, gaveUp |-> {},
              indexing |-> {}]

RecordCall(s, op, out) ==
    IF ~s.tracking \/ ~Returned(out)
           \/ op \notin {"shieldTokens", "unshieldTokens", "preparePrivateFunds",
                         "unshieldForTrading", "exitPrivatePosition"}
    THEN s
    ELSE [s EXCEPT !.refs = @ \cup {out.value.txHash},
                   !.lastShield = IF op = "preparePrivateFunds" THEN out.value.txHash ELSE @,
                   !.handles = @ \cup {[txHash |-> out.value.txHash,
                                        state |-> out.value.state]}]

RecordDerived(s, c, r) ==
    IF s.tracking /\ c.op = "deriveIncognitoAddress" /\ Returned(r)
    THEN [s EXCEPT !.derived = [address |-> c.args.address, chainId |-> c.args.chainId,
                                out |-> r.value]]
    ELSE s

RecordConfig(s, c, r) ==
    IF /\ s.tracking
       /\ c.op = "preparePrivateFunds"
       /\ Returned(r)
       /\ "maxIndexingTime" \in DOMAIN c.args
       /\ c.args.maxIndexingTime # <<>>
    THEN [s EXCEPT !.indexing = @ \cup {<<r.value.txHash, c.args.maxIndexingTime[1]>>}]
    ELSE s

RecordTerminal(s, txHash, state) ==
    IF s.tracking /\ state \in {"completed", "failed"}
    THEN [s EXCEPT !.terminal = @ \cup {txHash},
                   !.completed = IF state = "completed" THEN @ \cup {txHash} ELSE @,
                   !.gaveUp = IF state = "failed" THEN @ \cup {txHash} ELSE @]
    ELSE s

RecordTimeout(s, txHash) ==
    IF s.tracking THEN [s EXCEPT !.gaveUp = @ \cup {txHash}] ELSE s

\* no second session
NoPeer == [id |-> 0]

NoCall   == [op |-> "none", args |-> <<>>]
NoLocals == [shieldedBalance |-> Undefined]
NoHist   == [instants |-> {}, servedS |-> Undefined, servedI |-> Undefined,
             sdk |-> <<>>, failure |-> Undefined]

\* a single-shot call `op(args)` with outcome r
Finish(op, args, r) ==
    /\ pc' = "done"
    /\ call' = [op |-> op, args |-> args]
    /\ result' = r.out
    /\ ext' = r.req
    /\ locals' = NoLocals
    /\ hist' = NoHist
    /\ session' = RecordCall(session, op, r.out)
    /\ UNCHANGED <<chainId, poolBal, incogBal, now, wait, peer>>

CallDeriveIncognitoAddress ==
    /\ Idle
    /\ \E a \in Addresses, cid \in ChainIds :
         \E r \in {deriveIncognitoAddress(a, cid)} :
           Finish("deriveIncognitoAddress", [address |-> a, chainId |-> cid], r)

CallShieldTokens ==
    /\ Idle
    /\ \E a \in Addresses, tok \in Tokens, amt \in Amounts, prov \in SubmitAnswers,
          cid \in {chainId} :
         \E r \in {shieldTokens(a, tok, amt, cid, prov)} :
           Finish("shieldTokens", [address |-> a, amount |-> amt], r)

CallUnshieldTokens ==
    /\ Idle
    /\ \E a \in Addresses, tok \in Tokens, amt \in Amounts, prov \in SubmitAnswers,
          cid \in {chainId} :
         \E r \in {unshieldTokens(a, tok, amt, cid, prov)} :
           Finish("unshieldTokens", [address |-> a, amount |-> amt], r)

CallGetShieldedBalance ==
    /\ Idle
    /\ \E a \in Addresses, tok \in Tokens, prov \in ReadAnswers(poolBal), cid \in {chainId} :
         \E r \in {getShieldedBalance(a, tok, cid, prov)} :
           Finish("getShieldedBalance", [address |-> a], r)

CallGetIncognitoBalance ==
    /\ Idle
    /\ \E a \in Addresses, tok \in Tokens, prov \in ReadAnswers(incogBal), cid \in {chainId} :
         \E r \in {getIncognitoBalance(a, tok, cid, prov)} :
           Finish("getIncognitoBalance", [address |-> a], r)

DeriveIncognitoWallet ==
    /\ Idle
    /\ \E a \in Addresses, label \in Labels, cid \in {chainId}, t \in {now} :
         \E r \in {deriveIncognitoWallet(a, label, cid, t)} :
           Finish("deriveIncognitoWallet", [address |-> a, label |-> label], r)

PreparePrivateFunds ==
    /\ Idle
    /\ \E a \in Addresses, tok \in Tokens, amt \in Amounts, au \in AutoUnshield,
          prov \in SubmitAnswers, cid \in {chainId}, t \in {now} :
         \E r \in {preparePrivateFunds(a, ConfigOf(tok, amt, au), cid, t, prov)} :
           Finish("preparePrivateFunds", [address |-> a, amount |-> amt, autoUnshield |-> au], r)

UnshieldForTrading ==
    /\ Idle
    /\ \E a \in Addresses, tok \in Tokens, amt \in Amounts, au \in AutoUnshield,
          prov \in SubmitAnswers, cid \in {chainId}, t \in {now} :
         \E r \in {unshieldForTrading(CallerWallet(a, cid), ConfigOf(tok, amt, au), cid, t, prov)} :
           Finish("unshieldForTrading", [address |-> a, amount |-> amt, autoUnshield |-> au,
                       wallet |-> CallerWallet(a, cid), walletAfter |-> r.incognitoWallet,
                       config |-> ConfigOf(tok, amt, au), configAfter |-> r.config], r)

ExitPrivatePosition ==
    /\ Idle
    /\ \E a \in Addresses, tok \in Tokens, amt \in Amounts, au \in AutoUnshield,
          prov \in SubmitAnswers, cid \in {chainId}, t \in {now} :
         \E r \in {exitPrivatePosition(CallerWallet(a, cid), ConfigOf(tok, amt, au), cid, t, prov)} :
           Finish("exitPrivatePosition", [address |-> a, amount |-> amt, autoUnshield |-> au,
                       wallet |-> CallerWallet(a, cid), walletAfter |-> r.incognitoWallet,
                       config |-> ConfigOf(tok, amt, au), configAfter |-> r.config], r)

\* the caller has the outcome of the finished call and may call again
Resume ==
    /\ pc = "done"
    /\ pc' = "idle"
    /\ call' = NoCall
    /\ result' = NoResult
    /\ ext' = NoReq
    /\ locals' = NoLocals
    /\ hist' = NoHist
    /\ session' = RecordConfig(RecordDerived(session, call, result), call, result)
    /\ UNCHANGED <<chainId, poolBal, incogBal, now, wait, peer>>

-----------------------------------------------------------------------------
(* checkPrivateFundsStatus: the call, then one step per awaited read *)

InStatus == pc \in {"readShielded", "readIncognito"}

StatusBegin ==
    \E main \in StatusAddresses, incog \in StatusAddresses, tok \in Tokens :
        /\ Idle
        /\ pc' = "readShielded"
        /\ call' = [op |-> "checkPrivateFundsStatus",
                    args |-> [address |-> main, incognitoAddress |-> incog, token |-> tok]]
        /\ result' = NoResult
        /\ ext' = NoReq
        /\ locals' = NoLocals
        /\ hist' = [NoHist EXCEPT !.instants = {<<poolBal, incogBal>>}]
        /\ UNCHANGED <<chainId, poolBal, incogBal, now, wait, session, peer>>

\* `await ShieldModule.getShieldedBalance(...)` resolves or rejects
StatusReadShielded ==
    /\ pc = "readShielded"
    /\ \E prov \in ReadAnswers(poolBal), cid \in {chainId}, t \in {now} :
         \E r \in {getShieldedBalance(call.args.address, call.args.token, cid, prov)} :
           /\ ext' = ext \o r.req
           /\ hist' = [hist EXCEPT
                  !.sdk = Append(@, "getShieldedBalance"),
                  !.servedS = IF r.req # NoReq /\ ~prov.fail THEN poolBal ELSE @,
                  !.failure = IF Threw(r.out) THEN r.out.message ELSE @]
           /\ IF Threw(r.out)
              THEN /\ result' = StatusCatch(r.out, t)
                   /\ pc' = "done"
                   /\ UNCHANGED locals
              ELSE /\ locals' = [locals EXCEPT !.shieldedBalance = r.out.value]
                   /\ pc' = "readIncognito"
                   /\ UNCHANGED result
    /\ UNCHANGED <<chainId, call, poolBal, incogBal, now, wait, session, peer>>

\* `await IncognitoModule.getIncognitoBalance(...)`, then the rest of the try block
StatusReadIncognito ==
    /\ pc = "readIncognito"
    /\ \E prov \in ReadAnswers(incogBal), cid \in {chainId}, t \in {now} :
         \E r \in {getIncognitoBalance(call.args.incognitoAddress, call.args.token, cid, prov)} :
           /\ ext' = ext \o r.req
           /\ hist' = [hist EXCEPT
                  !.sdk = Append(@, "getIncognitoBalance"),
                  !.servedI = IF r.req # NoReq /\ ~prov.fail THEN incogBal ELSE @,
                  !.failure = IF Threw(r.out) THEN r.out.message ELSE @]
           /\ result' = IF Threw(r.out)
                        THEN StatusCatch(r.out, t)
                        ELSE Return(BuildStatus(locals.shieldedBalance, r.out.value, t))
           /\ pc' = "done"
    /\ UNCHANGED <<chainId, call, locals, poolBal, incogBal, now, wait, session, peer>>

-----------------------------------------------------------------------------
(* The provider's side: balances change behind the service's back *)

IsZeroBalance(b) == ~GtZero(ParseFloat(b))

Observe(p, i) == IF InStatus THEN [hist EXCEPT !.instants = @ \cup {<<p, i>>}] ELSE hist

\* an unshield takes effect: the pool balance moves to the incognito wallet
TransferToIncognito ==
    /\ ~IsZeroBalance(poolBal) /\ IsZeroBalance(incogBal)
    /\ incogBal' = poolBal
    /\ poolBal' = <<"0">>
    /\ hist' = Observe(poolBal', incogBal')
    /\ UNCHANGED <<chainId, pc, call, result, ext, locals, now, wait, session, peer>>

\* an exit shield takes effect: the incognito balance moves back to the pool
TransferToPool ==
    /\ ~IsZeroBalance(incogBal) /\ IsZeroBalance(poolBal)
    /\ poolBal' = incogBal
    /\ incogBal' = <<"0">>
    /\ hist' = Observe(poolBal', incogBal')
    /\ UNCHANGED <<chainId, pc, call, result, ext, locals, now, wait, session, peer>>

\* deposits, withdrawals and trading results, between two calls
SetBalance ==
    \E p \in Balances, i \in Balances :
        /\ Idle
        /\ <<p, i>> # <<poolBal, incogBal>>
        /\ poolBal' = p
        /\ incogBal' = i
        /\ UNCHANGED <<chainId, pc, call, result, ext, locals, hist, now, wait, session, peer>>

-----------------------------------------------------------------------------
(* Specification of the service and the SDK modules *)

NoWait == [pc |-> "idle", calls |-> 0]

Init ==
    /\ chainId \in ChainIds
    /\ pc = "idle"
    /\ call = NoCall
    /\ result = NoResult
    /\ ext = NoReq
    /\ locals = NoLocals
    /\ hist = NoHist
    /\ poolBal = <<"0">>
    /\ incogBal = <<"0">>
    /\ now = 0
    /\ wait = NoWait
    /\ session = NoSession
    /\ peer = NoPeer

Next ==
    \/ CallDeriveIncognitoAddress
    \/ CallShieldTokens
    \/ CallUnshieldTokens
    \/ CallGetShieldedBalance
    \/ CallGetIncognitoBalance
    \/ DeriveIncognitoWallet
    \/ PreparePrivateFunds
    \/ UnshieldForTrading
    \/ ExitPrivatePosition
    \/ Resume
    \/ StatusBegin
    \/ StatusReadShielded
    \/ StatusReadIncognito
    \/ TransferToIncognito
    \/ TransferToPool
    \/ SetBalance

Spec == Init /\ [][Next]_vars

-----------------------------------------------------------------------------
(* PrivateTradingService.waitForTransactionConfirmation                    *)

DEFAULT_MAX_INDEXING_TIME == 70000
POLLING_INTERVAL == 2000

\* an optional number: <<>> when omitted, <<n>> when given
Omitted  == <<>>
Given(n) == <<n>>

\* the default taken in seconds, as PrivateTradeConfig.maxIndexingTime is
MaxTimeOf_DefaultInSeconds(maxWaitTime) ==
    IF maxWaitTime = Omitted \/ maxWaitTime[1] = 0
    THEN DEFAULT_MAX_INDEXING_TIME \div 1000
    ELSE maxWaitTime[1]

MaxTimeOf_ZeroKept(maxWaitTime) ==
    IF maxWaitTime = Omitted
    THEN DEFAULT_MAX_INDEXING_TIME
    ELSE maxWaitTime[1]

\* line 282: `maxWaitTime || this.DEFAULT_MAX_INDEXING_TIME`
MaxTimeOf(maxWaitTime) ==
    IF maxWaitTime = Omitted \/ maxWaitTime[1] = 0
    THEN DEFAULT_MAX_INDEXING_TIME
    ELSE maxWaitTime[1]

DeadlineOpen_Inclusive(t, startTime, maxTime) == t - startTime <= maxTime

DeadlineOpen_FromEpoch(t, startTime, maxTime) == t < maxTime

\* line 285: the loop condition `Date.now() - startTime < maxTime`
DeadlineOpen(t, startTime, maxTime) == t - startTime < maxTime

PollBranch_CompletedIgnored(state) == IF state = "failed" THEN "throw" ELSE "sleep"

PollBranch_FailedIgnored(state) == IF state = "completed" THEN "return" ELSE "sleep"

PollBranch_ReturnsAnyState(state) == IF state = "failed" THEN "throw" ELSE "return"

PollBranch_CompletedThrows(state) ==
    IF state \in {"completed", "failed"} THEN "throw" ELSE "sleep"

PollBranch_IdleReturns(state) ==
    IF state \in {"completed", "idle"} THEN "return"
    ELSE IF state = "failed" THEN "throw"
    ELSE "sleep"

\* lines 288-297: what the loop body does with a polled state
PollBranch(state) ==
    IF state = "completed" THEN "return"
    ELSE IF state = "failed" THEN "throw"
    ELSE "sleep"

AwaitStatus_Swallowed(out) == IF Threw(out) THEN "sleep" ELSE PollBranch(out.value)

\* line 286: the `await` is in no try block, so a rejected status query leaves
\* the function with the query's error; a resolved one goes on to the branches
AwaitStatus(out) == IF Threw(out) THEN "reject" ELSE PollBranch(out.value)

\* line 293: the error raised on a polled `failed`
FailedError == Throw("Transaction failed")

TimeoutError_AsFailed == Throw("Transaction failed")

\* line 300: the error raised once the deadline has passed
TimeoutError == Throw("Transaction confirmation timeout")

(* Inputs of the polling loop *)

\* calls of waitForTransactionConfirmation in one behaviour
MaxCalls == 2

\* status queries of one call that take time to answer
MaxLatePolls == 2

ValidTxHash   == MockTxHash(<<"8", "f", "3", "a">>)
InvalidTxHash == <<"0", "x", "a", "b", "c", "1", "2", "3">>
TxHashes      == {ValidTxHash, InvalidTxHash}

MaxWaitTimes == {Omitted, Given(0), Given(POLLING_INTERVAL \div 2), Given(2 * POLLING_INTERVAL)}

\* how long a status query takes to answer
QueryDelays == {0, POLLING_INTERVAL}

\* the provider's answers to a status query
StatusAnswers == {[fail |-> TRUE, message |-> "Query error"]}
                     \cup {[fail |-> FALSE, state |-> st] : st \in TransactionState}

NoFirst == [state |-> "none", poll |-> 0, sleeps |-> 0]

\* the call: lines 282-283
WaitBegin ==
    \E txHash \in TxHashes, maxWaitTime \in MaxWaitTimes :
        /\ wait.pc = "idle"
        /\ wait.calls < MaxCalls
        /\ wait' = [pc |-> "check", txHash |-> txHash, maxWaitTime |-> maxWaitTime,
                    maxTime |-> MaxTimeOf(maxWaitTime), startTime |-> now,
                    polls |-> 0, sleeps |-> 0, last |-> "none", first |-> NoFirst,
                    late |-> 0, out |-> NoResult, calls |-> wait.calls + 1]
        /\ ext' = NoReq
        /\ UNCHANGED <<chainId, pc, call, result, locals, poolBal, incogBal, hist, now, session, peer>>

\* the loop condition: start the next status query, or raise the timeout
WaitCheck ==
    /\ wait.pc = "check"
    /\ IF DeadlineOpen(now, wait.startTime, wait.maxTime)
       THEN /\ wait' = [wait EXCEPT !.pc = "query", !.polls = @ + 1, !.last = "none"]
            /\ UNCHANGED session
       ELSE /\ wait' = [wait EXCEPT !.pc = "done", !.out = TimeoutError, !.last = "none"]
            /\ session' = RecordTimeout(session, wait.txHash)
    /\ UNCHANGED <<chainId, pc, call, result, ext, locals, poolBal, incogBal, hist, now, peer>>

\* `await ShieldModule.getTransactionStatus(txHash)` resolves or rejects after
\* some delay; a rejection leaves the function (there is no try block)
WaitPolled ==
    /\ wait.pc = "query"
    /\ \E prov \in StatusAnswers, d \in QueryDelays :
         \E r \in {getTransactionStatus(wait.txHash, prov)} :
           LET asked  == r.req # NoReq
               took   == IF asked THEN d ELSE 0
               branch == AwaitStatus(r.out)
               state  == IF Threw(r.out) THEN "error" ELSE r.out.value
               first  == IF wait.first.state = "none" /\ state \in {"completed", "failed"}
                         THEN [state |-> state, poll |-> wait.polls, sleeps |-> wait.sleeps]
                         ELSE wait.first
           IN  /\ took > 0 => wait.late < MaxLatePolls
               /\ now' = now + took
               /\ ext' = ext \o r.req
               /\ wait' = [wait EXCEPT
                      !.pc = IF branch = "sleep" THEN "sleep" ELSE "done",
                      !.out = CASE branch = "reject" -> r.out
                                [] branch = "return" -> Return(r.out.value)
                                [] branch = "throw" -> FailedError
                                [] OTHER -> NoResult,
                      !.last = state,
                      !.first = first,
                      !.late = IF took > 0 THEN @ + 1 ELSE @]
               /\ session' = RecordTerminal(session, wait.txHash, state)
    /\ UNCHANGED <<chainId, pc, call, result, locals, poolBal, incogBal, hist, peer>>

\* line 297: `await new Promise((resolve) => setTimeout(resolve, POLLING_INTERVAL))`
WaitSleep ==
    /\ wait.pc = "sleep"
    /\ now' = now + POLLING_INTERVAL
    /\ wait' = [wait EXCEPT !.pc = "check", !.sleeps = @ + 1]
    /\ UNCHANGED <<chainId, pc, call, result, ext, locals, poolBal, incogBal, hist, session, peer>>

\* the caller has the outcome and may wait again
WaitResume ==
    /\ wait.pc = "done"
    /\ wait' = [pc |-> "idle", calls |-> wait.calls]
    /\ ext' = NoReq
    /\ UNCHANGED <<chainId, pc, call, result, locals, poolBal, incogBal, hist, now, session, peer>>

InitWait ==
    /\ Init
    /\ chainId = 1

NextWait ==
    \/ WaitBegin
    \/ WaitCheck
    \/ WaitPolled
    \/ WaitSleep
    \/ WaitResume

SpecWait == InitWait /\ [][NextWait]_vars

\* The same, with the scheduling the event loop gives: an awaited status query
\* settles, the timer of the sleep fires, and a function that can run runs.
SpecWaitFair ==
    /\ SpecWait
    /\ WF_vars(WaitCheck)
    /\ WF_vars(WaitPolled)
    /\ WF_vars(WaitSleep)

-----------------------------------------------------------------------------
(* The polling loop against a provider that knows the operation but never   *)
(* moves it: every status query answers `idle`.                             *)

IdleWaitBegin ==
    /\ WaitBegin
    /\ wait'.txHash = ValidTxHash

IdlePolled ==
    /\ WaitPolled
    /\ wait'.last = "idle"

NextIdle ==
    \/ IdleWaitBegin
    \/ WaitCheck
    \/ IdlePolled
    \/ WaitSleep
    \/ WaitResume

SpecIdle == InitWait /\ [][NextIdle]_vars

-----------------------------------------------------------------------------
(* A session: one caller with one service, who derives, submits shields and *)
(* unshields and waits for confirmations in any order it likes, one call   *)
(* at a time.  The session history is recorded.                            *)

\* the amount this caller moves
SessionAmount == <<"1", "0", "0", "0">>

InitSession ==
    /\ chainId = 1
    /\ pc = "idle"
    /\ call = NoCall
    /\ result = NoResult
    /\ ext = NoReq
    /\ locals = NoLocals
    /\ hist = NoHist
    /\ poolBal = <<"0">>
    /\ incogBal = <<"0">>
    /\ now = 0
    /\ wait = NoWait
    /\ session = [NoSession EXCEPT !.tracking = TRUE]
    /\ peer = NoPeer

\* the addresses this caller derives from
SessionAddresses == {MainWallet, SameImageA, SameImageB}

SessionDerive ==
    /\ Idle
    /\ wait.pc = "idle"
    /\ \E a \in SessionAddresses, cid \in ChainIds :
         \E r \in {deriveIncognitoAddress(a, cid)} :
           Finish("deriveIncognitoAddress", [address |-> a, chainId |-> cid], r)

SessionPrepare ==
    /\ Idle
    /\ wait.pc = "idle"
    /\ \E tok \in Tokens, mit \in MaxIndexingTimes, prov \in SubmitAnswers,
          cid \in {chainId}, t \in {now} :
         \E r \in {preparePrivateFunds(MainWallet,
                                       ConfigWith(tok, SessionAmount, Undefined, mit),
                                       cid, t, prov)} :
           Finish("preparePrivateFunds",
                  [address |-> MainWallet, amount |-> SessionAmount,
                   autoUnshield |-> Undefined, maxIndexingTime |-> mit], r)

SessionUnshield ==
    /\ Idle
    /\ wait.pc = "idle"
    /\ \E tok \in Tokens, prov \in SubmitAnswers, cid \in {chainId}, t \in {now} :
         \E r \in {unshieldForTrading(CallerWallet(MixedCase, cid),
                                      ConfigOf(tok, SessionAmount, Undefined), cid, t, prov)} :
           Finish("unshieldForTrading",
                  [address |-> MixedCase, amount |-> SessionAmount,
                   autoUnshield |-> Undefined, wallet |-> CallerWallet(MixedCase, cid),
                   walletAfter |-> r.incognitoWallet,
                   config |-> ConfigOf(tok, SessionAmount, Undefined),
                   configAfter |-> r.config], r)

SessionStatusBegin ==
    /\ wait.pc = "idle"
    /\ StatusBegin
    /\ call'.args.address = MainWallet
    /\ call'.args.incognitoAddress = MixedCase

SessionResume ==
    /\ wait.pc = "idle"
    /\ Resume

SessionWaitBegin ==
    /\ Idle
    /\ WaitBegin
    /\ wait'.maxWaitTime = Given(POLLING_INTERVAL \div 2)

\* the status queries of this session answer at once
SessionWaitPolled ==
    /\ WaitPolled
    /\ now' = now

NextSession ==
    \/ SessionDerive
    \/ SessionPrepare
    \/ SessionUnshield
    \/ SessionStatusBegin
    \/ StatusReadShielded
    \/ StatusReadIncognito
    \/ SessionResume
    \/ SessionWaitBegin
    \/ WaitCheck
    \/ SessionWaitPolled
    \/ WaitSleep
    \/ WaitResume

SpecSession == InitSession /\ [][NextSession]_vars

\* A session that shields with a configuration and waits, with the handle it
\* got (a handle carries no deadline), for the confirmation.
\* waits of this session
MaxIndexingWaits == 1

IndexingWaitBegin ==
    /\ Idle
    /\ wait.calls < MaxIndexingWaits
    /\ WaitBegin
    /\ wait'.txHash \in session.refs
    /\ wait'.maxWaitTime = Omitted

NextIndexing ==
    \/ SessionPrepare
    \/ SessionResume
    \/ IndexingWaitBegin
    \/ WaitCheck
    \/ SessionWaitPolled
    \/ WaitSleep
    \/ WaitResume

SpecIndexing == InitSession /\ [][NextIndexing]_vars

-----------------------------------------------------------------------------
(* Two sessions taking turns on one JavaScript thread.  Each session is a  *)
(* caller with its own PrivateTradingService (the same instance when the   *)
(* chain ids are equal: no operation assigns this.chainId).  The variables *)
(* chainId .. wait hold the session that is running, `peer` the one that   *)
(* is suspended at an await; the provider and the clock are common.        *)

\* what belongs to one session
Frame(cid, p, c, r, e, l, h, w) ==
    [chainId |-> cid, pc |-> p, call |-> c, result |-> r, ext |-> e, locals |-> l,
     hist |-> h, wait |-> w]

Running == Frame(chainId, pc, call, result, ext, locals, hist, wait)

\* the session that is running
Me == 3 - peer.id

\* control passes to the other session; the running one is at an await or
\* between two calls (the loop condition of the wait is evaluated without
\* yielding)
Switch ==
    /\ wait.pc # "check"
    /\ peer' = [id |-> Me, ctor |-> peer.ctor, frame |-> Running]
    /\ chainId' = peer.frame.chainId
    /\ pc' = peer.frame.pc
    /\ call' = peer.frame.call
    /\ result' = peer.frame.result
    /\ ext' = peer.frame.ext
    /\ locals' = peer.frame.locals
    /\ hist' = peer.frame.hist
    /\ wait' = peer.frame.wait
    /\ UNCHANGED <<poolBal, incogBal, now, session>>

\* `new PrivateTradingService(c1)` and `new PrivateTradingService(c2)`
InitPair ==
    \E c1 \in ChainIds, c2 \in ChainIds :
        /\ chainId = c1
        /\ pc = "idle"
        /\ call = NoCall
        /\ result = NoResult
        /\ ext = NoReq
        /\ locals = NoLocals
        /\ hist = NoHist
        /\ poolBal = <<"0">>
        /\ incogBal = SessionAmount
        /\ now = 0
        /\ wait = NoWait
        /\ session = NoSession
        /\ peer = [id |-> 2, ctor |-> <<c1, c2>>,
                   frame |-> Frame(c2, "idle", NoCall, NoResult, NoReq, NoLocals, NoHist, NoWait)]

PairDeriveWallet ==
    /\ Idle
    /\ wait.pc = "idle"
    /\ \E label \in Labels, cid \in {chainId}, t \in {now} :
         \E r \in {deriveIncognitoWallet(MainWallet, label, cid, t)} :
           Finish("deriveIncognitoWallet", [address |-> MainWallet, label |-> label], r)

PairPrepare ==
    /\ Idle
    /\ wait.pc = "idle"
    /\ \E tok \in Tokens, prov \in SubmitAnswers, cid \in {chainId}, t \in {now} :
         \E r \in {preparePrivateFunds(MainWallet, ConfigOf(tok, SessionAmount, Undefined),
                                       cid, t, prov)} :
           Finish("preparePrivateFunds",
                  [address |-> MainWallet, amount |-> SessionAmount,
                   autoUnshield |-> Undefined], r)

PairStatusBegin ==
    /\ wait.pc = "idle"
    /\ StatusBegin
    /\ call'.args.address = MainWallet
    /\ call'.args.incognitoAddress = MixedCase

PairResume ==
    /\ wait.pc = "idle"
    /\ Resume

\* calls of waitForTransactionConfirmation by one session of the two
MaxPairWaits == 1

\* both sessions wait for the same operation
PairWaitBegin ==
    /\ Idle
    /\ wait.calls < MaxPairWaits
    /\ WaitBegin
    /\ wait'.txHash = ValidTxHash
    /\ wait'.maxWaitTime = Given(POLLING_INTERVAL \div 2)

\* the status queries answer at once
PairWaitPolled ==
    /\ WaitPolled
    /\ now' = now

NextPair ==
    \/ PairDeriveWallet
    \/ PairPrepare
    \/ PairStatusBegin
    \/ StatusReadShielded
    \/ StatusReadIncognito
    \/ PairResume
    \/ PairWaitBegin
    \/ WaitCheck
    \/ PairWaitPolled
    \/ WaitSleep
    \/ WaitResume
    \/ Switch

SpecPair == InitPair /\ [][NextPair]_vars

-----------------------------------------------------------------------------
(* Properties of waitForTransactionConfirmation (under SpecWait)           *)

Waiting  == wait.pc # "idle"
WaitDone == wait.pc = "done"

CeilDiv(a, b) == (a + b - 1) \div b

\* C1: once a poll has returned `completed` (the first terminal state, at
\* poll k), the call is over with the result `completed`, after exactly k
\* status queries and k - 1 sleeps; no query or sleep follows.
C1_CompletedEndsTheWait ==
    (Waiting /\ wait.first.state = "completed") =>
        /\ WaitDone
        /\ wait.out = [kind |-> "return", value |-> "completed"]
        /\ wait.polls = wait.first.poll
        /\ wait.sleeps = wait.first.poll - 1
        /\ Len(ext) = wait.first.poll

C1_Witness ==
    /\ WaitDone
    /\ wait.first = [state |-> "completed", poll |-> 3, sleeps |-> 2]
    /\ wait.out = [kind |-> "return", value |-> "completed"]
    /\ Len(ext) = 3

\* C2: once a poll has returned `failed` (the first terminal state), the
\* call is over with the error 'Transaction failed', raised at that poll;
\* no status query follows it.
C2_FailedEndsTheWait ==
    (Waiting /\ wait.first.state = "failed") =>
        /\ WaitDone
        /\ wait.out = [kind |-> "throw", message |-> "Transaction failed"]
        /\ wait.polls = wait.first.poll
        /\ wait.sleeps = wait.first.sleeps
        /\ Len(ext) = wait.first.poll

C2_Witness ==
    /\ WaitDone
    /\ wait.first = [state |-> "failed", poll |-> 3, sleeps |-> 2]
    /\ wait.out = [kind |-> "throw", message |-> "Transaction failed"]
    /\ Len(ext) = 3

\* C3: a call whose polls all returned a non-terminal state ends, once the
\* deadline has passed, with the error 'Transaction confirmation timeout',
\* which is not the operation-failed error; and the timeout error is raised
\* only when no poll of the call returned `failed` or `completed`.
C3_TimeoutOnlyWithoutTerminal ==
    WaitDone =>
        /\ (wait.first.state = "none" /\ wait.last # "error") =>
               /\ wait.out = [kind |-> "throw", message |-> "Transaction confirmation timeout"]
               /\ now - wait.startTime >= wait.maxTime
        /\ wait.out.kind = "throw" /\ wait.out.message = "Transaction confirmation timeout" =>
               /\ wait.first.state = "none"
               /\ wait.out # FailedError
        /\ wait.first.state \in {"failed", "completed"} =>
               wait.out # [kind |-> "throw", message |-> "Transaction confirmation timeout"]

C3_Witness ==
    /\ WaitDone
    /\ wait.polls = 2
    /\ wait.first.state = "none"
    /\ wait.out = [kind |-> "throw", message |-> "Transaction confirmation timeout"]
    /\ Len(ext) = 2

\* C4: with a positive maxWait, status queries that answer at once and a
\* provider that never reports a terminal state, the timeout is raised no
\* later than maxWait + POLLING_INTERVAL after the start and after at most
\* ceil(maxWait / POLLING_INTERVAL) polls; with maxWait = 1000 that is one
\* poll and a timeout 2000 ms after the start.
C4_TimeoutBound ==
    (/\ WaitDone
     /\ wait.out = [kind |-> "throw", message |-> "Transaction confirmation timeout"]
     /\ wait.late = 0
     /\ wait.maxWaitTime # Omitted
     /\ wait.maxWaitTime # Given(0)) =>
        LET maxWait == wait.maxWaitTime[1]
        IN  /\ now - wait.startTime <= maxWait + POLLING_INTERVAL
            /\ wait.polls <= CeilDiv(maxWait, POLLING_INTERVAL)
            /\ maxWait = 1000 => wait.polls = 1 /\ now - wait.startTime = 2000

C4_Witness ==
    /\ WaitDone
    /\ wait.out = [kind |-> "throw", message |-> "Transaction confirmation timeout"]
    /\ wait.late = 0
    /\ wait.maxWaitTime = Given(1000)
    /\ wait.polls = 1
    /\ Len(ext) = 1
    /\ now - wait.startTime = 2000

-----------------------------------------------------------------------------
(* Properties of the service and the SDK modules (under Spec)              *)

\* the 20-byte hexadecimal address shape: "0x" and 40 hexadecimal digits
WellFormedAddress(a) ==
    /\ Len(a) = 42
    /\ SubSeq(a, 1, 2) = <<"0", "x">>
    /\ \A i \in 3..42 : a[i] \in HexChars

\* a decimal numeral: digits with at most one point
IsDecimal(s) ==
    /\ Len(s) > 0
    /\ \A i \in 1..Len(s) : s[i] \in Digits \cup {"."}
    /\ Cardinality({i \in 1..Len(s) : s[i] = "."}) <= 1
    /\ \E i \in 1..Len(s) : s[i] \in Digits

\* a decimal numeral of a number greater than zero
PositiveDecimal(s) == IsDecimal(s) /\ \E i \in 1..Len(s) : s[i] \in Digits \ {"0"}

Funded(p) == PositiveDecimal(p[1]) \/ PositiveDecimal(p[2])

StatusDone == pc = "done" /\ call.op = "checkPrivateFundsStatus"

\* both reads of the finished checkPrivateFundsStatus call succeeded
StatusRead == StatusDone /\ hist.failure = Undefined

\* C5: checkPrivateFundsStatus never throws: it returns a snapshot, and when
\* one of its reads failed (a malformed address makes a read fail) the
\* snapshot has status ERROR, isReady false, transactionState FAILED and the
\* failure's message in its error field.
C5_StatusNeverThrows ==
    StatusDone =>
        /\ Returned(result)
        /\ (~WellFormedAddress(call.args.address)
               \/ ~WellFormedAddress(call.args.incognitoAddress)) => hist.failure # Undefined
        /\ hist.failure # Undefined =>
               /\ result.value.privacyPoolStatus = "error"
               /\ result.value.isReady = FALSE
               /\ result.value.transactionState = "failed"
               /\ "error" \in DOMAIN result.value
               /\ result.value.error = hist.failure

C5_Witness ==
    /\ StatusDone
    /\ hist.sdk = <<"getShieldedBalance", "getIncognitoBalance">>
    /\ hist.failure = "Network error"
    /\ Returned(result)
    /\ result.value.privacyPoolStatus = "error"
    /\ result.value.error = "Network error"

\* C6: when both reads succeed with balances s and i, isReady is true exactly
\* when s > 0 or i > 0, and the status is READY when isReady is true and
\* NOT_INITIALIZED otherwise.
C6_ReadyIffFunded ==
    StatusRead =>
        /\ Returned(result)
        /\ result.value.isReady = (PositiveDecimal(hist.servedS) \/ PositiveDecimal(hist.servedI))
        /\ result.value.privacyPoolStatus =
               IF result.value.isReady THEN "ready" ELSE "not_initialized"

C6_Witness ==
    /\ StatusRead
    /\ hist.servedS = <<"0">>
    /\ hist.servedI = <<"0", ".", "5">>
    /\ result.value.isReady = TRUE
    /\ result.value.privacyPoolStatus = "ready"

\* C7 as stated: the balances of a snapshot are the pool and incognito
\* balances of one single instant of the call, and a snapshot never shows
\* both balances zero when funds were positive at every instant of the call.
C7_SnapshotOfOneInstant ==
    StatusRead =>
        /\ <<result.value.shieldedBalance, result.value.incognitoBalance>> \in hist.instants
        /\ (\A p \in hist.instants : Funded(p)) => result.value.isReady

\* C7: each balance of a snapshot is a balance that held at some instant of
\* the call, and the two are the balances of one instant when no transfer
\* took effect during the call.
C7_EachBalanceOfSomeInstant ==
    StatusRead =>
        /\ \E p \in hist.instants : result.value.shieldedBalance = p[1]
        /\ \E p \in hist.instants : result.value.incognitoBalance = p[2]
        /\ Cardinality(hist.instants) = 1 =>
               <<result.value.shieldedBalance, result.value.incognitoBalance>> \in hist.instants

\* a transfer between the two reads: funds positive throughout, none reported
C7_Witness ==
    /\ StatusRead
    /\ hist.instants = {<<<<"0">>, <<"1", "0", "0", "0">>>>, <<<<"1", "0", "0", "0">>, <<"0">>>>}
    /\ result.value.shieldedBalance = <<"0">>
    /\ result.value.incognitoBalance = <<"0">>
    /\ result.value.isReady = FALSE

\* C8: nothing is cached: a call whose first read succeeds calls both reads,
\* and when both succeed the snapshot is made of the two values the provider
\* served in that call (and of the time) and of nothing else.
C8_NoCaching ==
    (StatusDone /\ hist.servedS # Undefined) =>
        /\ hist.sdk = <<"getShieldedBalance", "getIncognitoBalance">>
        /\ hist.failure = Undefined =>
               LET ready == PositiveDecimal(hist.servedS) \/ PositiveDecimal(hist.servedI)
               IN  /\ Len(ext) = 2
                   /\ ext[1].fn = "read-shielded-balance"
                   /\ ext[2].fn = "read-incognito-balance"
                   /\ result = [kind |-> "return",
                                value |-> [shieldedBalance |-> hist.servedS,
                                           incognitoBalance |-> hist.servedI,
                                           mainWalletBalance |-> <<"0">>,
                                           privacyPoolStatus |->
                                               IF ready THEN "ready" ELSE "not_initialized",
                                           isReady |-> ready,
                                           transactionState |-> "idle",
                                           lastUpdated |-> now]]

\* the balances have changed since the start and the call reports the new ones
C8_Witness ==
    /\ StatusRead
    /\ Len(ext) = 2
    /\ hist.servedS = <<"0", ".", "5">>
    /\ hist.servedI = <<"1", "0", "0", "0">>
    /\ result.value.shieldedBalance = <<"0", ".", "5">>
    /\ result.value.incognitoBalance = <<"1", "0", "0", "0">>

SubmitOps  == {"shieldTokens", "unshieldTokens"}
ServiceSubmitOps == {"preparePrivateFunds", "unshieldForTrading", "exitPrivatePosition"}

\* C9 as stated: an amount that is empty, zero, negative or not a number
\* makes shieldTokens and unshieldTokens fail with 'Invalid amount', and the
\* service operations built on them fail too.
C9_InvalidAmountRejected ==
    (/\ pc = "done"
     /\ call.op \in SubmitOps \cup ServiceSubmitOps
     /\ WellFormedAddress(call.args.address)
     /\ ~PositiveDecimal(call.args.amount)) =>
        /\ Threw(result)
        /\ ext = NoReq
        /\ call.op \in SubmitOps => result.message = "Invalid amount"

SingleShotOps ==
    {"deriveIncognitoAddress", "shieldTokens", "unshieldTokens", "getShieldedBalance",
     "getIncognitoBalance", "deriveIncognitoWallet", "preparePrivateFunds",
     "unshieldForTrading", "exitPrivatePosition"}

\* the invalid-input error of each operation for its address
InvalidAddressMessage(op) ==
    CASE op = "deriveIncognitoAddress" -> "Invalid main wallet address"
      [] op = "shieldTokens"           -> "Invalid wallet address"
      [] op = "unshieldTokens"         -> "Invalid destination address"
      [] op = "getShieldedBalance"     -> "Invalid wallet address"
      [] op = "getIncognitoBalance"    -> "Invalid incognito address"
      [] op = "deriveIncognitoWallet"  ->
             "Failed to derive incognito wallet: Invalid main wallet address"
      [] op = "preparePrivateFunds"    ->
             "Failed to prepare private funds: Invalid wallet address"
      [] op = "unshieldForTrading"     ->
             "Failed to unshield for trading: Invalid destination address"
      [] op = "exitPrivatePosition"    ->
             "Failed to exit private position: Invalid wallet address"

-----------------------------------------------------------------------------
(* Properties of the service operations (under Spec)                       *)

Done(op) == pc = "done" /\ call.op = op

\* C11: the addresses are never crossed: preparePrivateFunds submits its
\* shield from the main address it was given, exitPrivatePosition submits
\* its shield from wallet.address, unshieldForTrading submits its unshield
\* to wallet.address and returns a handle with that destination; the main
\* address of the wallet is used by neither of the last two.
C11_AddressRouting ==
    /\ (Done("preparePrivateFunds") /\ ext # NoReq) =>
           /\ Len(ext) = 1
           /\ ext[1].fn = "submit-shield"
           /\ ext[1].address = call.args.address
    /\ (Done("exitPrivatePosition") /\ ext # NoReq) =>
           /\ Len(ext) = 1
           /\ ext[1].fn = "submit-shield"
           /\ ext[1].address = call.args.wallet.address
           /\ call.args.wallet.address # call.args.wallet.mainWalletAddress =>
                  ext[1].address # call.args.wallet.mainWalletAddress
    /\ (Done("unshieldForTrading") /\ ext # NoReq) =>
           /\ Len(ext) = 1
           /\ ext[1].fn = "submit-unshield"
           /\ ext[1].address = call.args.wallet.address
           /\ call.args.wallet.address # call.args.wallet.mainWalletAddress =>
                  ext[1].address # call.args.wallet.mainWalletAddress
           /\ Returned(result) => result.value.destinationAddress = call.args.wallet.address

C11_Witness ==
    /\ Done("exitPrivatePosition")
    /\ Returned(result)
    /\ call.args.wallet.address = MixedCase
    /\ call.args.wallet.mainWalletAddress = MainWallet
    /\ Len(ext) = 1
    /\ ext[1].address = MixedCase

WrappingOps ==
    {"deriveIncognitoWallet", "preparePrivateFunds", "unshieldForTrading",
     "exitPrivatePosition"}

PhasePrefix(op) ==
    CASE op = "deriveIncognitoWallet" -> "Failed to derive incognito wallet: "
      [] op = "preparePrivateFunds"   -> "Failed to prepare private funds: "
      [] op = "unshieldForTrading"    -> "Failed to unshield for trading: "
      [] op = "exitPrivatePosition"   -> "Failed to exit private position: "

\* the message of the SDK function's own error for a malformed address
AddressCause(op) ==
    CASE op = "deriveIncognitoWallet" -> "Invalid main wallet address"
      [] op = "preparePrivateFunds"   -> "Invalid wallet address"
      [] op = "unshieldForTrading"    -> "Invalid destination address"
      [] op = "exitPrivatePosition"   -> "Invalid wallet address"

\* the cause of the failed call: the address validation, else (nothing was
\* sent) the amount validation, else the provider's rejection
CauseMessage ==
    IF ~WellFormedAddress(call.args.address) THEN AddressCause(call.op)
    ELSE IF ext = NoReq THEN "Invalid amount"
    ELSE "Insufficient balance"

\* C14: a failed deriveIncognitoWallet, preparePrivateFunds,
\* unshieldForTrading or exitPrivatePosition throws an error whose message is
\* the phase's prefix followed by the cause's message unchanged, and returns
\* nothing; a malformed address always makes the call fail.
C14_PhasePrefixKeepsCause ==
    (pc = "done" /\ call.op \in WrappingOps) =>
        /\ ~WellFormedAddress(call.args.address) => Threw(result)
        /\ Threw(result) =>
               /\ result = [kind |-> "throw", message |-> PhasePrefix(call.op) \o CauseMessage]
               /\ "value" \notin DOMAIN result

C14_Witness ==
    /\ Done("unshieldForTrading")
    /\ Len(ext) = 1
    /\ result = [kind |-> "throw",
                 message |-> "Failed to unshield for trading: Insufficient balance"]

\* an operation reference: "0x" and 64 hexadecimal digits
WellFormedRef(h) ==
    /\ Len(h) = 66
    /\ SubSeq(h, 1, 2) = <<"0", "x">>
    /\ \A i \in 3..66 : h[i] \in HexChars

\* C19: a successful shieldTokens or unshieldTokens returns at once (one
\* submission, no status query) a reference of the form 0x + 64 hex digits
\* with the state `pending`, and the status query accepts that reference.
C19_ReferenceFormat ==
    (pc = "done" /\ call.op \in SubmitOps /\ Returned(result)) =>
        /\ WellFormedRef(result.value.txHash)
        /\ result.value.state = "pending"
        /\ Len(ext) = 1
        /\ ext[1].fn = IF call.op = "shieldTokens" THEN "submit-shield" ELSE "submit-unshield"
        /\ getTransactionStatus(result.value.txHash, [fail |-> FALSE, state |-> "pending"]).out
               = [kind |-> "return", value |-> "pending"]

\* Math.random() gave 0: the reference is 0x and 64 zeros
C19_Witness ==
    /\ Done("unshieldTokens")
    /\ Returned(result)
    /\ result.value.txHash = <<"0", "x">> \o Rep("0", 64)
    /\ result.value.state = "pending"

\* C20: a call of preparePrivateFunds, unshieldForTrading or
\* exitPrivatePosition makes at most one provider request, a submission of
\* its own kind, exactly one when the inputs pass validation; a rejected
\* submission is not repeated, autoUnshield adds none, and the handle
\* returned is still `pending`: no status query is made.
C20_OneSubmission ==
    (pc = "done" /\ call.op \in ServiceSubmitOps) =>
        /\ Len(ext) <= 1
        /\ \A i \in 1..Len(ext) :
               ext[i].fn = IF call.op = "unshieldForTrading" THEN "submit-unshield"
                           ELSE "submit-shield"
        /\ Returned(result) => Len(ext) = 1 /\ result.value.state = "pending"
                                            /\ result.value.startedAt = now
        /\ (WellFormedAddress(call.args.address) /\ PositiveDecimal(call.args.amount)) =>
               Len(ext) = 1
        /\ (Threw(result) /\ ext # NoReq) =>
               result.message = PhasePrefix(call.op) \o "Insufficient balance"

C20_Witness ==
    /\ Done("preparePrivateFunds")
    /\ call.args.autoUnshield = "true"
    /\ result = [kind |-> "throw",
                 message |-> "Failed to prepare private funds: Insufficient balance"]
    /\ Len(ext) = 1

-----------------------------------------------------------------------------
(* Properties of the derivation (under Spec and SpecSession)               *)

DerivedNow == Done("deriveIncognitoAddress") /\ Returned(result)

\* an earlier deriveIncognitoAddress call of the session returned an address
DerivedBefore == session.derived # NoDerived

SameInputs ==
    /\ session.derived.address = call.args.address
    /\ session.derived.chainId = call.args.chainId

C16_DeriveInjective ==
    (DerivedNow /\ DerivedBefore /\ ~SameInputs) => result.value # session.derived.out

\* C17 as stated: the derived address never equals the address it was
\* derived from, and no wallet of deriveIncognitoWallet has its address equal
\* to its mainWalletAddress.
C17_DerivedDiffersFromMain ==
    /\ DerivedNow => result.value # call.args.address
    /\ (Done("deriveIncognitoWallet") /\ Returned(result)) =>
           result.value.address # result.value.mainWalletAddress

\* C18: the address deriveIncognitoAddress returns is "0x" and exactly 40
\* hexadecimal digits, also when the 32-bit hash is 0 (eight zeros, repeated)
\* or -2^31 (80000000, repeated).
C18_DerivedWellFormed ==
    DerivedNow =>
        /\ WellFormedAddress(result.value)
        /\ (call.args.address = ZeroHash /\ call.args.chainId = 1) =>
               result.value = <<"0", "x">> \o Rep("0", 40)
        /\ (call.args.address = MinHash /\ call.args.chainId = 1) =>
               result.value = <<"0", "x">> \o Hex8(<<"8", "0", "0", "0", "0", "0", "0", "0">>)

C18_Witness ==
    /\ DerivedNow
    /\ call.args.address = MinHash
    /\ call.args.chainId = 1
    /\ result.value = <<"0", "x">> \o Hex8(<<"8", "0", "0", "0", "0", "0", "0", "0">>)

-----------------------------------------------------------------------------
(* Properties of the order of a session's calls (under SpecSession)        *)

\* C12 as stated: an unshield is not submitted while the reference of the
\* session's last preparePrivateFunds has not been seen in a terminal state
\* by waitForTransactionConfirmation.
C12_UnshieldAfterShieldConfirmed ==
    (Done("unshieldForTrading") /\ ext # NoReq /\ session.lastShield # <<>>) =>
        session.lastShield \in session.terminal

\* C13 as stated: waitForTransactionConfirmation asks the provider only for
\* the state of a reference that a shield or unshield call of the session
\* has returned.
C13_WaitOnlyForSubmitted ==
    (Waiting /\ ext # NoReq) =>
        \A i \in 1..Len(ext) :
            ext[i].fn = "poll-operation-state" => ext[i].txHash \in session.refs

-----------------------------------------------------------------------------
(* Properties of the polling loop, continued (under SpecWait)              *)

\* the errors a status query can raise: the format check, the provider
QueryErrors ==
    {[kind |-> "throw", message |-> "Invalid transaction hash"],
     [kind |-> "throw", message |-> "Query error"]}

\* C21: when a status query raises an error, the call is over at once with
\* that very error: the failing query was the last request, it is not
\* repeated, no sleep follows it, and the error is neither the timeout nor
\* the operation-failed error.
C21_QueryErrorPropagates ==
    (Waiting /\ wait.last = "error") =>
        /\ WaitDone
        /\ wait.out \in QueryErrors
        /\ wait.out.message = "Invalid transaction hash" <=> wait.txHash = InvalidTxHash
        /\ wait.out # [kind |-> "throw", message |-> "Transaction confirmation timeout"]
        /\ wait.out # [kind |-> "throw", message |-> "Transaction failed"]
        /\ wait.sleeps = wait.polls - 1
        /\ Len(ext) = IF wait.txHash = InvalidTxHash THEN 0 ELSE wait.polls

\* the third query of a call fails, after two polls that found the operation
\* pending
C21_Witness ==
    /\ WaitDone
    /\ wait.last = "error"
    /\ wait.out = [kind |-> "throw", message |-> "Query error"]
    /\ wait.polls = 3
    /\ wait.sleeps = 2
    /\ Len(ext) = 3

-----------------------------------------------------------------------------
(* Properties of deriveIncognitoWallet (under Spec)                        *)

WalletDone == Done("deriveIncognitoWallet") /\ Returned(result)

\* the fields every returned wallet has
WalletFields ==
    /\ result.value.address = deriveIncognitoAddress(call.args.address, chainId).out.value
    /\ result.value.mainWalletAddress = call.args.address
    /\ result.value.chainId = chainId
    /\ result.value.isActive = TRUE
    /\ result.value.createdAt = now

-----------------------------------------------------------------------------
(* Properties of two sessions taking turns (under SpecPair)                *)

FrameDone(f, op) == f.pc = "done" /\ f.call.op = op

\* every request of the session that names a network names the one its
\* service was constructed with
CarriesOwnChain(f) ==
    \A i \in 1..Len(f.ext) :
        f.ext[i].fn # "poll-operation-state" => f.ext[i].chainId = f.chainId

\* the outcomes of the session's calls are made of its own arguments, its own
\* chain id and the provider's answers to its own requests
OwnOutcome(f) ==
    /\ (FrameDone(f, "deriveIncognitoWallet") /\ Returned(f.result)) =>
           /\ f.result.value.mainWalletAddress = f.call.args.address
           /\ f.result.value.chainId = f.chainId
           /\ f.result.value.address =
                  deriveIncognitoAddress(f.call.args.address, f.chainId).out.value
           /\ f.ext = NoReq
    /\ (FrameDone(f, "preparePrivateFunds") /\ Returned(f.result)) =>
           /\ f.result.value.amount = f.call.args.amount
           /\ f.result.value.state = "pending"
           /\ WellFormedRef(f.result.value.txHash)
           /\ Len(f.ext) = 1
           /\ f.ext[1].address = f.call.args.address
    /\ (FrameDone(f, "preparePrivateFunds") /\ Threw(f.result)) =>
           /\ f.result.message = "Failed to prepare private funds: Insufficient balance"
           /\ Len(f.ext) = 1
    /\ (FrameDone(f, "checkPrivateFundsStatus") /\ f.hist.failure = Undefined) =>
           /\ f.result.value.shieldedBalance = f.hist.servedS
           /\ f.result.value.incognitoBalance = f.hist.servedI
           /\ f.result.value.privacyPoolStatus # "error"
           /\ Len(f.ext) = 2
    /\ (FrameDone(f, "checkPrivateFundsStatus") /\ f.hist.failure # Undefined) =>
           /\ f.result.value.error = f.hist.failure
           /\ f.result.value.privacyPoolStatus = "error"
           /\ Len(f.ext) = Len(f.hist.sdk)
    /\ f.wait.pc = "done" =>
           /\ f.wait.first.state = "completed" =>
                  f.wait.out = [kind |-> "return", value |-> "completed"]
           /\ f.wait.first.state = "failed" =>
                  f.wait.out = [kind |-> "throw", message |-> "Transaction failed"]
           /\ f.wait.last = "error" =>
                  f.wait.out = [kind |-> "throw", message |-> "Query error"]
           /\ (f.wait.first.state = "none" /\ f.wait.last # "error") =>
                  f.wait.out = [kind |-> "throw",
                                message |-> "Transaction confirmation timeout"]
           /\ Len(f.ext) = f.wait.polls
           /\ \A i \in 1..Len(f.ext) : f.ext[i].txHash = f.wait.txHash

\* getChainId() of each service is the value its constructor was given
ChainIdsKept ==
    /\ peer.id \in {1, 2}
    /\ chainId = peer.ctor[Me]
    /\ peer.frame.chainId = peer.ctor[peer.id]

\* C22 as stated: however the operations of two sessions are interleaved,
\* each session's outcomes are those of its own calls, the chain id of each
\* service stays the constructor's value, and every provider call carries
\* that chain id.
C22_EveryCallCarriesChainId ==
    /\ ChainIdsKept
    /\ OwnOutcome(Running)
    /\ OwnOutcome(peer.frame)
    /\ \A f \in {Running, peer.frame} :
           \A i \in 1..Len(f.ext) :
               "chainId" \in DOMAIN f.ext[i] /\ f.ext[i].chainId = f.chainId

\* C22: however the operations of two sessions are interleaved, each
\* session's outcomes are those of its own calls, the chain id of each
\* service stays the constructor's value, and every submission and balance
\* read carries that chain id (a status query carries only the reference).
C22_SessionsIsolated ==
    /\ ChainIdsKept
    /\ OwnOutcome(Running)
    /\ OwnOutcome(peer.frame)
    /\ CarriesOwnChain(Running)
    /\ CarriesOwnChain(peer.frame)
    /\ \A f \in {Running, peer.frame} :
           \A i \in 1..Len(f.ext) :
               f.ext[i].fn = "poll-operation-state" => DOMAIN f.ext[i] = {"fn", "txHash"}

\* a session on chain 1 has derived its wallet and submitted a shield while
\* the session on chain 137 is suspended between the two reads of a status
\* check
C22_Witness ==
    /\ chainId = 1
    /\ Done("preparePrivateFunds")
    /\ Returned(result)
    /\ ext[1].chainId = 1
    /\ peer.frame.chainId = 137
    /\ peer.frame.pc = "readIncognito"
    /\ Len(peer.frame.ext) = 1
    /\ peer.frame.ext[1].chainId = 137

\* the session has a status query outstanding
Polling(f) == f.wait.pc = "query"

\* C27 as stated: within one call a poll starts only after the previous one
\* has returned and the sleep has elapsed, and two status queries for the
\* same reference are never outstanding together, also when two calls wait
\* for that reference at once.
C27_OnePollInFlight ==
    /\ \A f \in {Running, peer.frame} :
           Polling(f) => f.wait.polls = f.wait.sleeps + 1 /\ Len(f.ext) = f.wait.polls - 1
    /\ ~(/\ Polling(Running)
         /\ Polling(peer.frame)
         /\ wait.txHash = peer.frame.wait.txHash)

-----------------------------------------------------------------------------
(* Properties of a session's waits and handles (under SpecSession)         *)

\* the requests the core makes of the provider
ProviderCalls ==
    {"submit-shield", "submit-unshield", "poll-operation-state",
     "read-shielded-balance", "read-incognito-balance"}

\* C23: a wait that ended with the timeout or the operation-failed error
\* retracts nothing: the core only submits, reads and polls, never cancels;
\* a later wait for the same reference counts its deadline from its own
\* start, so with a positive maxWait it polls at least once and raises the
\* timeout only when its own maxWait has passed; and it returns `completed`
\* when the provider then reports `completed`.
C23_LaterWaitStartsAfresh ==
    /\ \A i \in 1..Len(ext) : ext[i].fn \in ProviderCalls
    /\ (Waiting /\ wait.txHash \in session.gaveUp) =>
           /\ wait.startTime <= now
           /\ (wait.pc = "check" /\ wait.polls = 0) => wait.startTime = now
           /\ (WaitDone /\ wait.out = [kind |-> "throw",
                                       message |-> "Transaction confirmation timeout"]) =>
                  /\ wait.polls >= 1
                  /\ now - wait.startTime >= POLLING_INTERVAL \div 2
           /\ (WaitDone /\ wait.last = "completed") =>
                  wait.out = [kind |-> "return", value |-> "completed"]

\* the first wait for the submitted reference ended without `completed`; the
\* second wait, begun 2 s or more later, returned `completed`
C23_Witness ==
    /\ WaitDone
    /\ wait.calls = 2
    /\ wait.txHash = ValidTxHash
    /\ wait.txHash \in session.gaveUp
    /\ wait.txHash \in session.refs
    /\ wait.startTime >= POLLING_INTERVAL
    /\ wait.out = [kind |-> "return", value |-> "completed"]

-----------------------------------------------------------------------------
(* Properties of the polling loop: defaults, tie-break, termination        *)
(* (under SpecWait and SpecWaitFair)                                       *)

\* C24: with maxWaitTime omitted the deadline is 70 s and the polls are 2 s
\* apart: while the status queries answer at once, poll k starts 2(k-1) s
\* after the call, and if no poll returns a terminal state the timeout is
\* raised 70 s after the call, after 35 polls (at 0, 2, ..., 68 s).
C24_DefaultDeadline ==
    (Waiting /\ wait.maxWaitTime = Omitted) =>
        /\ wait.maxTime = 70000
        /\ (wait.late = 0 /\ wait.pc = "query") =>
               /\ now - wait.startTime = 2000 * (wait.polls - 1)
               /\ wait.polls <= 35
        /\ (/\ wait.late = 0
            /\ WaitDone
            /\ wait.out = [kind |-> "throw", message |-> "Transaction confirmation timeout"]) =>
               /\ wait.polls = 35
               /\ wait.sleeps = 35
               /\ Len(ext) = 35
               /\ now - wait.startTime = 70000

C24_Witness ==
    /\ WaitDone
    /\ wait.maxWaitTime = Omitted
    /\ wait.late = 0
    /\ wait.out = [kind |-> "throw", message |-> "Transaction confirmation timeout"]
    /\ wait.polls = 35
    /\ now - wait.startTime = 70000

\* C26: the first terminal state a poll returns decides the outcome,
\* `completed` as the result and `failed` as the operation-failed error, also
\* when the deadline has passed by the time that poll returns; the timeout is
\* raised only by the deadline check before a poll, never after a poll that
\* returned a terminal state.
C26_FirstTerminalWins ==
    /\ (Waiting /\ wait.first.state # "none") =>
           /\ WaitDone
           /\ wait.last = wait.first.state
           /\ wait.polls = wait.first.poll
           /\ wait.first.state = "completed" =>
                  wait.out = [kind |-> "return", value |-> "completed"]
           /\ wait.first.state = "failed" =>
                  wait.out = [kind |-> "throw", message |-> "Transaction failed"]
    /\ (WaitDone /\ wait.out = [kind |-> "throw",
                                message |-> "Transaction confirmation timeout"]) =>
           /\ wait.last = "none"
           /\ wait.first.state = "none"
           /\ now - wait.startTime >= wait.maxTime
           /\ wait.polls = wait.sleeps

\* the second poll began 2 s into a 4 s wait, took 2 s and returned
\* `completed` when the deadline had been reached
C26_Witness ==
    /\ WaitDone
    /\ wait.maxWaitTime = Given(2 * POLLING_INTERVAL)
    /\ wait.polls = 2
    /\ wait.late = 1
    /\ now - wait.startTime >= wait.maxTime
    /\ wait.out = [kind |-> "return", value |-> "completed"]

\* the four ways a call ends
WaitOutcomes ==
    {[kind |-> "return", value |-> "completed"],
     [kind |-> "throw", message |-> "Transaction failed"],
     [kind |-> "throw", message |-> "Transaction confirmation timeout"]} \cup QueryErrors

InWait == wait.pc \in {"check", "query", "sleep"}

\* C28: when every status query is answered and the clock advances, a call
\* of waitForTransactionConfirmation (with a finite maxWaitTime) ends; it ends
\* in one of: the result `completed`, the operation-failed error, the timeout
\* error, the error of a status query; it never returns another state.
C28_WaitTerminates ==
    /\ [](WaitDone => wait.out \in WaitOutcomes)
    /\ [](~WaitDone /\ Waiting => wait.out = NoResult)
    /\ InWait ~> WaitDone

\* a call with the default deadline, two slow status queries among its polls,
\* ended by the timeout
C28_Witness ==
    /\ WaitDone
    /\ wait.maxWaitTime = Omitted
    /\ wait.polls > 30
    /\ wait.late = 2
    /\ wait.out = [kind |-> "throw", message |-> "Transaction confirmation timeout"]

-----------------------------------------------------------------------------
(* Properties of handles and snapshots within a session (under SpecSession) *)

\* C29 as stated: a handle is created in the state `pending`, and once a wait
\* has returned `completed` for its reference the handle's state is
\* `completed`.
C29_HandleFollowsTheWait ==
    \A h \in session.handles :
        /\ h.state \in {"pending", "completed", "failed"}
        /\ h.txHash \in session.completed => h.state = "completed"

\* C30 as stated: a successful checkPrivateFundsStatus made after the session
\* has submitted a shield or unshield reports that operation's state, not
\* `idle`; it reports `idle` when the session has submitted nothing.
C30_SnapshotHasOperationState ==
    (StatusDone /\ result.value.privacyPoolStatus # "error") =>
        IF session.refs = {}
        THEN result.value.transactionState = "idle"
        ELSE result.value.transactionState \in TransactionState \ {"idle"}

-----------------------------------------------------------------------------
(* The configuration's maxIndexingTime (under SpecIndexing)                *)

\* the wait is for an operation whose configuration set maxIndexingTime to n
IndexingSet(n) == Waiting /\ <<wait.txHash, n>> \in session.indexing

\* C31 as stated: the wait for the confirmation of an operation whose
\* configuration set maxIndexingTime to 90 (seconds) is bounded by 90 s, not
\* by the 70 s default: while no poll returns a terminal state it keeps
\* polling up to 90 s.
C31_ConfigDeadlineRespected ==
    IndexingSet(90) =>
        /\ wait.maxTime = 90 * 1000
        /\ (WaitDone /\ wait.out = [kind |-> "throw",
                                    message |-> "Transaction confirmation timeout"]) =>
               now - wait.startTime >= 90 * 1000

-----------------------------------------------------------------------------
(* Properties of the service operations, continued (under Spec)            *)

\* the messages of the errors the SDK functions and the provider raise
Causes ==
    {"Invalid wallet address", "Invalid destination address", "Invalid main wallet address",
     "Invalid amount", "Insufficient balance"}

\* the messages that tell the phase `op`
PhaseMessages(op) == {PhasePrefix(op) \o c : c \in Causes}

\* C32: the message of a failure tells its phase: a failed
\* exitPrivatePosition carries the exit prefix and not the prepare prefix, a
\* failed preparePrivateFunds the prepare prefix and not the exit prefix,
\* although both submit a shield; a failed unshieldForTrading carries the
\* unshield prefix only.
C32_PhaseIdentifiable ==
    (pc = "done" /\ call.op \in ServiceSubmitOps /\ Threw(result)) =>
        /\ result.message \in PhaseMessages(call.op)
        /\ \A other \in ServiceSubmitOps \ {call.op} :
               result.message \notin PhaseMessages(other)

\* the provider rejected the shield of an exit
C32_Witness ==
    /\ Done("exitPrivatePosition")
    /\ Len(ext) = 1
    /\ ext[1].fn = "submit-shield"
    /\ result = [kind |-> "throw",
                 message |-> "Failed to exit private position: Insufficient balance"]

\* the operations that are handed the incognito wallet and the trade
\* configuration as objects
ObjectOps == {"unshieldForTrading", "exitPrivatePosition"}

\* C33: unshieldForTrading and exitPrivatePosition leave every field of the
\* incognito wallet and of the trade configuration they were given as it
\* was, whether they return or fail.  (checkPrivateFundsStatus and
\* waitForTransactionConfirmation are handed strings only.)
C33_ArgumentsUnchanged ==
    (pc = "done" /\ call.op \in ObjectOps) =>
        /\ call.args.walletAfter = call.args.wallet
        /\ call.args.configAfter = call.args.config
        /\ call.args.wallet.isActive
        /\ call.args.walletAfter.isActive

\* an unshield the provider rejected, the wallet and the configuration as passed
C33_Witness ==
    /\ Done("unshieldForTrading")
    /\ Len(ext) = 1
    /\ Threw(result)
    /\ call.args.walletAfter = CallerWallet(call.args.address, chainId)
    /\ call.args.configAfter.amount = call.args.amount

\* the requests of kind fn among the requests made so far
Issued(fn) == {i \in 1..Len(ext) : ext[i].fn = fn}

\* C34: checkPrivateFundsStatus makes its two reads one after the other,
\* the shielded balance first: the incognito read is made only once the
\* shielded read has been answered, and when the shielded read fails the
\* incognito read is never made.
C34_ReadsInSequence ==
    /\ pc = "readShielded" => ext = NoReq /\ hist.sdk = <<>>
    /\ pc = "readIncognito" =>
           /\ hist.sdk = <<"getShieldedBalance">>
           /\ hist.servedS # Undefined
           /\ Len(ext) = 1
           /\ ext[1].fn = "read-shielded-balance"
    /\ StatusDone =>
           /\ hist.sdk \in {<<"getShieldedBalance">>,
                            <<"getShieldedBalance", "getIncognitoBalance">>}
           /\ \A i \in Issued("read-incognito-balance") :
                  Issued("read-shielded-balance") = {1} /\ i = 2
           /\ hist.servedS = Undefined =>
                  /\ hist.sdk = <<"getShieldedBalance">>
                  /\ Issued("read-incognito-balance") = {}

\* the provider failed the shielded read, and no incognito read followed
C34_Witness ==
    /\ StatusDone
    /\ hist.servedS = Undefined
    /\ hist.failure = "Network error"
    /\ Len(ext) = 1
    /\ ext[1].fn = "read-shielded-balance"
    /\ WellFormedAddress(call.args.incognitoAddress)

\* the three signs of a failed status check in a snapshot
HasError(v)    == "error" \in DOMAIN v
StatusError(v) == v.privacyPoolStatus = "error"
StateFailed(v) == v.transactionState = "failed"

\* C35: in every snapshot of checkPrivateFundsStatus the signs of failure
\* agree: an error message is present exactly when privacyPoolStatus is
\* ERROR, and exactly when transactionState is FAILED; a snapshot with status
\* ERROR is never ready, and a ready snapshot carries no error.
C35_ErrorIndicatorsAgree ==
    StatusDone =>
        /\ Returned(result)
        /\ HasError(result.value) <=> StatusError(result.value)
        /\ StatusError(result.value) <=> StateFailed(result.value)
        /\ HasError(result.value) <=> (hist.failure # Undefined)
        /\ StatusError(result.value) => ~result.value.isReady
        /\ result.value.isReady => ~HasError(result.value)

\* an error snapshot, taken while the pool held funds
C35_Witness ==
    /\ StatusDone
    /\ HasError(result.value)
    /\ StatusError(result.value)
    /\ StateFailed(result.value)
    /\ ~result.value.isReady
    /\ ~IsZeroBalance(poolBal)

\* C36: when one read of checkPrivateFundsStatus succeeds and the other
\* fails, the snapshot reports '0' for all three balances, also when the
\* shielded read had returned a positive balance before the incognito read
\* failed.
C36_ErrorSnapshotBalancesZero ==
    (StatusDone /\ hist.failure # Undefined) =>
        /\ result.value.shieldedBalance = <<"0">>
        /\ result.value.incognitoBalance = <<"0">>
        /\ result.value.mainWalletBalance = <<"0">>

\* the shielded read returned a positive balance, then the incognito read failed
C36_Witness ==
    /\ StatusDone
    /\ hist.servedS # Undefined
    /\ ~IsZeroBalance(hist.servedS)
    /\ hist.servedI = Undefined
    /\ hist.failure # Undefined
    /\ hist.sdk = <<"getShieldedBalance", "getIncognitoBalance">>
    /\ result.value.shieldedBalance = <<"0">>

-----------------------------------------------------------------------------
(* Properties of the polling loop, continued                               *)

\* C37 (under SpecIdle): a polled `idle` does not end the wait: after it the
\* loop sleeps and checks the deadline again, with no outcome yet; and a wait
\* whose every poll answers `idle` ends only with the timeout error, after at
\* least one poll and not before the time allowed has passed.
C37_IdleIsNotTerminal ==
    /\ (Waiting /\ wait.last = "idle") =>
           /\ wait.pc \in {"sleep", "check"}
           /\ wait.out = NoResult
    /\ WaitDone =>
           /\ wait.out = [kind |-> "throw", message |-> "Transaction confirmation timeout"]
           /\ wait.polls >= 1
           /\ Len(ext) = wait.polls
           /\ now - wait.startTime >= wait.maxTime

\* a wait of the default 70 s, polled `idle` every time, has timed out
C37_Witness ==
    /\ WaitDone
    /\ wait.maxWaitTime = Omitted
    /\ wait.polls > 30
    /\ Len(ext) = wait.polls
    /\ wait.first = NoFirst
    /\ wait.out = [kind |-> "throw", message |-> "Transaction confirmation timeout"]

\* C38 (under SpecWait): a maxWaitTime of 0 counts as omitted: the wait is
\* given the 70 s default, so it polls at least once, and it raises the
\* timeout error no earlier than 70 s after it began.
C38_ZeroMeansDefault ==
    (Waiting /\ wait.maxWaitTime = <<0>>) =>
        /\ wait.maxTime = 70000
        /\ WaitDone => wait.polls >= 1
        /\ (WaitDone /\ wait.out = [kind |-> "throw",
                                    message |-> "Transaction confirmation timeout"]) =>
               now - wait.startTime >= 70000

\* a wait called with 0 that polled for 70 s and then timed out
C38_Witness ==
    /\ WaitDone
    /\ wait.maxWaitTime = <<0>>
    /\ wait.polls > 30
    /\ wait.out = [kind |-> "throw", message |-> "Transaction confirmation timeout"]

-----------------------------------------------------------------------------
(* Properties of two sessions, continued (under SpecPair)                  *)

\* the session has a wallet from deriveIncognitoWallet
HasWallet(f) == FrameDone(f, "deriveIncognitoWallet") /\ Returned(f.result)

====
